---- MODULE Spec2Model ----
(***************************************************************************)
(* Molecular functional-group predictor (React client).                    *)
(*                                                                         *)
(* The model covers the logic-bearing part of the client: the MoleculeInput*)
(* form (validateSMILES, handleInputChange, handleSubmit, example and       *)
(* clear buttons), and the App component (health check, stats load,        *)
(* handlePrediction with its response transformation).                     *)
(*                                                                         *)
(* Conventions                                                             *)
(*  - a JavaScript string is a sequence of one-character strings;          *)
(*  - a value that may be undefined/null is None (<<>>) or Some(v) (<<v>>);*)
(*  - probabilities and confidences are integers in hundredths             *)
(*    (0.5 is 50), so that the comparison "> 0.5" is exact.                *)
(***************************************************************************)
EXTENDS Integers, Sequences, FiniteSets, TLC

VARIABLES
    smiles,           \* MoleculeInput: useState('')
    selectedExample,  \* MoleculeInput: useState(null); 0 is null, else index
    inputError,       \* MoleculeInput: useState('')
    currentView,      \* App: useState('predictor')
    predictionData,   \* App: useState(null)
    isLoading,        \* App: useState(false)
    systemStatus,     \* App: useState({backendConnected:false,...})
    modelStats,       \* App: useState({totalPredictions:0,...})
    inflight,         \* /predict fetches issued and not yet settled
    issued,           \* number of /predict fetches issued so far
    healthPc,         \* checkBackendStatus: "pending" until its fetch settles
    statsPc,          \* loadSystemStats: "pending" until its fetch settles
    toast,            \* the last notification raised through react-hot-toast
    crashed,          \* a render threw: React has unmounted the whole tree
    validateArg,      \* argument of a stand-alone validateSMILES call
    validateRet,      \* its result, None until the call has returned
    normalizeArg,     \* stage-2 mapping handed to the functionalGroups map
    normalizeRet,     \* its result, None until the map has run
    transformArg,     \* JSON body handed to the response transformation
    transformClock,   \* what Date.now() returns before and after its fetch
    transformRet      \* its outcome, None until the transformation has run

vars == <<smiles, selectedExample, inputError, currentView, predictionData,
          isLoading, systemStatus, modelStats, inflight, issued, healthPc,
          statsPc, toast, crashed, validateArg, validateRet, normalizeArg,
          normalizeRet, transformArg, transformClock, transformRet>>

appVars == <<smiles, selectedExample, inputError, currentView, predictionData,
             isLoading, systemStatus, modelStats, inflight, issued, healthPc,
             statsPc, toast, crashed>>

unitVars == <<validateArg, validateRet, normalizeArg, normalizeRet,
              transformArg, transformClock, transformRet>>

None == <<>>

Some(v) == <<v>>

(***************************************************************************)
(* Bounds of the model.                                                    *)
(***************************************************************************)
MaxLen == 4           \* longest string handed to a stand-alone validate call

MaxTypedLen == 1      \* longest string typed into the input field

MaxRequests == 2      \* /predict requests issued in one session

MaxGroups == 2        \* keys in a stage-2 mapping

MaxExample == 1       \* the user clicks among the first MaxExample examples

(***************************************************************************)
(* Characters and strings.                                                 *)
(***************************************************************************)
Letters ==
    {"A","B","C","D","E","F","G","H","I","J","K","L","M","N","O","P","Q","R",
     "S","T","U","V","W","X","Y","Z","a","b","c","d","e","f","g","h","i","j",
     "k","l","m","n","o","p","q","r","s","t","u","v","w","x","y","z"}

Digits == {"0","1","2","3","4","5","6","7","8","9"}

\* a character class that lets the space through
AllowedCharsWithSpace ==
    Letters \cup Digits
        \cup {"[","]","(",")","=","#","+","-","@","/","\\","."," "}

\* the complement of the character class of invalidChars
AllowedChars ==
    Letters \cup Digits \cup {"[","]","(",")","=","#","+","-","@","/","\\","."}

\* characters String.prototype.trim strips (those the model types)
Whitespace == {" ", "\t"}

\* characters a user types in the model: legal, brackets, blank, illegal
Alphabet == {"C", "(", ")", "[", "]", " ", "\t", ";"}

StringsUpTo(n) == UNION {[1..k -> Alphabet] : k \in 0..n}

\* characters typed into the input field of the running application
TypedAlphabet == {"C", "(", " ", ";"}

TypedStrings == UNION {[1..k -> TypedAlphabet] : k \in 0..MaxTypedLen}

RECURSIVE TrimStart(_)
TrimStart(s) ==
    IF s = <<>> \/ Head(s) \notin Whitespace THEN s ELSE TrimStart(Tail(s))

RECURSIVE TrimEnd(_)
TrimEnd(s) ==
    IF s = <<>> \/ s[Len(s)] \notin Whitespace THEN s
    ELSE TrimEnd(SubSeq(s, 1, Len(s) - 1))

\* String.prototype.trim
Trim(s) == TrimEnd(TrimStart(s))

\* a list whose first example has an unclosed bracket
exampleMoleculesUnclosed == << <<"C","C","(">>, <<"C","N">> >>

exampleMolecules == <<
    <<"C","C","O">>,
    <<"C","C","(","=","O",")","C">>,
    <<"C","N">>,
    <<"C","C","(","=","O",")","N">>,
    <<"C","=","C">>,
    <<"C","#","C">>,
    <<"C","C","O","C">>,
    <<"C","F">>,
    <<"C","C","#","N">>,
    <<"H","2","O">>,
    <<"H","N","O","3">>,
    <<"C","H","3","O","H">>,
    <<"C","2","H","4","O","2">>,
    <<"N","H","3">>,
    <<"C","O","2">>,
    <<"C","(","[","C","@","@","H","]","1","[","C","@","H","]","(","[","C","@","@","H","]","(","[","C","@","H","]","(","[","C","@","H","]","(","O","1",")","O",")","O",")","O",")","O",")","O">>,
    <<"C","N","1","C","=","N","C","2","=","C","1","C","(","=","O",")","N","(","C","(","=","O",")","N","2","C",")","C">>,
    <<"C","C","(","=","O",")","O","C","1","=","C","C","=","C","C","=","C","1","C","(","=","O",")","O">>
    >>

(***************************************************************************)
(* validateSMILES                                                          *)
(***************************************************************************)
ErrEmpty == "SMILES string cannot be empty"

ErrInvalidChars == "SMILES contains invalid characters"

ErrUnbalanced == "Unbalanced brackets in SMILES"

NoError == ""

\* !smilesString.trim()
IsBlankNoTrim(s) == s = <<>>

IsBlank(s) == Trim(s) = <<>>

\* invalidChars.test(smilesString)
HasInvalidChars(s) == \E i \in 1..Len(s) : s[i] \notin AllowedChars

\* smilesString.match(/[\[\]()]/g) || []
IsBracket(c) == c \in {"[", "]", "(", ")"}

Brackets(s) == SelectSeq(s, IsBracket)

\* one kind of counter for both kinds of bracket
BracketStepShared(count, bracket) ==
    IF bracket \in {"[", "("}
    THEN [count EXCEPT !.squareCount = @ + 1]
    ELSE [count EXCEPT !.squareCount = @ - 1]

\* body of the for-of loop over the brackets
BracketStep(count, bracket) ==
    IF bracket = "[" THEN [count EXCEPT !.squareCount = @ + 1]
    ELSE IF bracket = "]" THEN [count EXCEPT !.squareCount = @ - 1]
    ELSE IF bracket = "(" THEN [count EXCEPT !.roundCount = @ + 1]
    ELSE IF bracket = ")" THEN [count EXCEPT !.roundCount = @ - 1]
    ELSE count

RECURSIVE BracketLoop(_, _)
BracketLoop(bs, count) ==
    IF bs = <<>> THEN count
    ELSE BracketLoop(Tail(bs), BracketStep(count, Head(bs)))

\* a running-depth check: a closer before its opener is never forgiven
RECURSIVE BracketLoopDepth(_, _)
BracketLoopDepth(bs, count) ==
    IF bs = <<>> \/ count.squareCount < 0 \/ count.roundCount < 0 THEN count
    ELSE BracketLoopDepth(Tail(bs), BracketStep(count, Head(bs)))

CountBracketsDepth(s) ==
    BracketLoopDepth(Brackets(s), [squareCount |-> 0, roundCount |-> 0])

\* let squareCount = 0, roundCount = 0; for (let bracket of brackets) ...
CountBrackets(s) ==
    BracketLoop(Brackets(s), [squareCount |-> 0, roundCount |-> 0])

\* squareCount !== 0 || roundCount !== 0
IsUnbalanced(s) ==
    LET count == CountBrackets(s)
    IN  count.squareCount # 0 \/ count.roundCount # 0

\* the character check placed before the emptiness check
validateCharsFirst(s) ==
    IF HasInvalidChars(s) THEN ErrInvalidChars
    ELSE IF IsBlank(s) THEN ErrEmpty
    ELSE IF IsUnbalanced(s) THEN ErrUnbalanced
    ELSE NoError

\* the bracket check placed before the character check
validateBracketsFirst(s) ==
    IF IsBlank(s) THEN ErrEmpty
    ELSE IF IsUnbalanced(s) THEN ErrUnbalanced
    ELSE IF HasInvalidChars(s) THEN ErrInvalidChars
    ELSE NoError

validateSMILES(s) ==
    IF IsBlank(s) THEN ErrEmpty
    ELSE IF HasInvalidChars(s) THEN ErrInvalidChars
    ELSE IF IsUnbalanced(s) THEN ErrUnbalanced
    ELSE NoError

(***************************************************************************)
(* Response transformation of handlePrediction                             *)
(***************************************************************************)
LowerCase ==
    <<"a","b","c","d","e","f","g","h","i","j","k","l","m","n","o","p","q",
      "r","s","t","u","v","w","x","y","z">>

UpperCase ==
    <<"A","B","C","D","E","F","G","H","I","J","K","L","M","N","O","P","Q",
      "R","S","T","U","V","W","X","Y","Z">>

\* String.prototype.toUpperCase on one character
ToUpperCase(c) ==
    IF \E i \in 1..Len(LowerCase) : LowerCase[i] = c
    THEN UpperCase[CHOOSE i \in 1..Len(LowerCase) : LowerCase[i] = c]
    ELSE c

\* name.toUpperCase(): every character upper-cased
CapitalizeAll(name) == [j \in 1..Len(name) |-> ToUpperCase(name[j])]

\* name.charAt(0).toUpperCase() + name.slice(1)
Capitalize(name) ==
    IF name = <<>> THEN <<>> ELSE <<ToUpperCase(name[1])>> \o Tail(name)

\* probability > 0.5, in hundredths
Threshold == 50

\* the callback with probability >= 0.5
GroupRecordInclusive(entry) ==
    [name        |-> Capitalize(entry[1]),
     probability |-> entry[2],
     detected    |-> entry[2] >= Threshold,
     confidence  |-> entry[2]]

\* the callback of the map: ([name, probability]) => ({...})
GroupRecord(entry) ==
    [name        |-> Capitalize(entry[1]),
     probability |-> entry[2],
     detected    |-> entry[2] > Threshold,
     confidence  |-> entry[2]]

\* a map that keeps only the groups above the threshold
MapGroupsDetectedOnly(entries) ==
    LET kept == SelectSeq(entries, LAMBDA e : e[2] > Threshold)
    IN  [i \in 1..Len(kept) |-> GroupRecord(kept[i])]

\* Object.entries(functional_groups).map(...); entries is the mapping in
\* its own iteration order, as Object.entries lists it
MapGroups(entries) ==
    [i \in 1..Len(entries) |-> GroupRecord(entries[i])]

\* property access on undefined, or Object.entries(undefined): TypeError
NormalizeThrows(result) ==
    \/ result.level1 = None
    \/ result.level2 = None
    \/ result.metadata = None
    \/ result.level2[1].functional_groups = None

\* (Date.now() - startTime) / 1000, in hundredths of a second
ClientElapsed == 250

\* the elapsed time measured by the client
ProcessingTimeMeasured(result) == Some(ClientElapsed)

\* processingTime: result.processing_time
ProcessingTimeOf(result) == result.processing_time

\* the count recomputed from the mapping: its entries above the threshold
TotalDetectedCounted(level2) ==
    Len(SelectSeq(level2.functional_groups[1], LAMBDA e : e[2] > Threshold))

\* totalDetected: result.level2.total_detected
TotalDetectedOf(level2) == level2.total_detected

\* the notation lost on the way into the record
SmilesMissing(result) == None

\* smiles: result.smiles
SmilesOf(result) == result.smiles

\* const transformedPrediction = {...}
Normalize(result) ==
    LET level1   == result.level1[1]
        level2   == result.level2[1]
        metadata == result.metadata[1]
    IN  [smiles           |-> SmilesOf(result),
         hasGroups        |-> level1.has_functional_groups,
         confidence       |-> level1.confidence,
         level1Prediction |-> level1.prediction,
         functionalGroups |-> MapGroups(level2.functional_groups[1]),
         detectedGroups   |-> level2.detected_groups,
         totalDetected    |-> TotalDetectedOf(level2),
         modelUsed        |-> metadata.algorithm,
         processingTime   |-> ProcessingTimeOf(result),
         inDataset        |-> metadata.in_dataset,
         warnings         |-> IF result.warnings = None THEN <<>>
                              ELSE result.warnings[1],
         timestamp        |-> result.timestamp,
         featureCount     |-> metadata.feature_count]

\* the measured time written into the record
TransformedPredictionClocked(result, startTime, now) ==
    [Normalize(result) EXCEPT !.processingTime = Some(now - startTime)]

\* the try block after the success test, Date.now() having returned
\* startTime before the fetch and now after it: the local processingTime is
\* computed and never read
TransformedPrediction(result, startTime, now) ==
    LET processingTime == now - startTime
    IN  Normalize(result)

(***************************************************************************)
(* What the backend may answer                                             *)
(***************************************************************************)
Alcohol == <<"a","l","c","o","h","o","l">>

Amine == <<"a","m","i","n","e">>

\* keys of the stage-2 mappings the unit specification draws from
GroupKeys == {Alcohol, Amine, <<"A","m","i","n","e">>, <<"1">>, <<>>}

Probabilities == {30, 50, 92}

IsInjective(f) == \A i, j \in DOMAIN f : f[i] = f[j] => i = j

\* the stage-2 mappings of at most n keys: distinct keys, any order
Mappings(n) ==
    UNION {{[i \in 1..k |-> <<ks[i], ps[i]>>] :
               ks \in {f \in [1..k -> GroupKeys] : IsInjective(f)},
               ps \in [1..k -> Probabilities]} : k \in 0..n}

Level1Yes ==
    [has_functional_groups |-> TRUE, confidence |-> 95,
     prediction |-> Some("HAS_GROUPS")]

Level1No ==
    [has_functional_groups |-> FALSE, confidence |-> 80, prediction |-> None]

Level2Of(groups, detected) ==
    [functional_groups |-> groups, detected_groups |-> detected,
     total_detected |-> Len(detected)]

Metadata ==
    [algorithm |-> "RandomForest", in_dataset |-> TRUE, feature_count |-> 64]

\* a notation other than the submitted one: the backend is free to answer
\* with its own rendering of the molecule
OtherNotation == <<"O","C","C">>

\* a well-formed successful body for the request with body b
GoodResult(b) ==
    [success         |-> TRUE,
     message         |-> None,
     smiles          |-> Some(b),
     level1          |-> Some(Level1Yes),
     level2          |-> Some(Level2Of(Some(<<<<Alcohol, 92>>>>),
                                       <<Alcohol>>)),
     metadata        |-> Some(Metadata),
     processing_time |-> Some(12),
     warnings        |-> None,
     timestamp       |-> Some("2024-01-01T00:00:00")]

\* the JSON bodies the backend may send for the request with body b
Results(b) ==
    LET good == GoodResult(b)
    IN  { good,
          [good EXCEPT !.smiles = Some(OtherNotation),
                       !.level1 = Some(Level1No),
                       !.level2 = Some(Level2Of(Some(<<>>), <<>>)),
                       !.warnings = Some(<<"not in dataset">>)],
          [good EXCEPT !.success = FALSE, !.message = Some("bad smiles")],
          [good EXCEPT !.success = FALSE],
          [good EXCEPT !.level1 = None],
          [good EXCEPT !.level2 = Some(Level2Of(None, <<>>))],
          [good EXCEPT !.metadata = None],
          [good EXCEPT !.processing_time = None] }

\* how the fetch of /predict may settle: the promise rejects, the body is
\* not JSON, or a JSON body arrives; ok is the HTTP status being 2xx
PredictOutcomes(b) ==
    {[fetch |-> "reject", ok |-> FALSE, json |-> None]}
    \cup {[fetch |-> "ok", ok |-> k, json |-> None] : k \in BOOLEAN}
    \cup {[fetch |-> "ok", ok |-> k, json |-> Some(r)] :
              k \in BOOLEAN, r \in Results(b)}

\* how the fetch of /health may settle: the promise rejects, the status is
\* not OK, or one of three OK bodies arrives
HealthOutcomes ==
    {[fetch |-> "reject", ok |-> FALSE, models_loaded |-> FALSE,
      dataset_loaded |-> FALSE],
     [fetch |-> "ok", ok |-> FALSE, models_loaded |-> FALSE,
      dataset_loaded |-> FALSE],
     [fetch |-> "ok", ok |-> TRUE, models_loaded |-> TRUE,
      dataset_loaded |-> TRUE],
     [fetch |-> "ok", ok |-> TRUE, models_loaded |-> FALSE,
      dataset_loaded |-> TRUE],
     [fetch |-> "ok", ok |-> TRUE, models_loaded |-> FALSE,
      dataset_loaded |-> FALSE]}

\* how the fetch of /stats may settle
StatsOutcomes ==
    {[fetch |-> "reject", ok |-> FALSE, total_molecules |-> None,
      embedding_dimensions |-> None],
     [fetch |-> "ok", ok |-> FALSE, total_molecules |-> None,
      embedding_dimensions |-> None],
     [fetch |-> "ok", ok |-> TRUE, total_molecules |-> Some(1500),
      embedding_dimensions |-> None]}

(***************************************************************************)
(* Initial state: the components as constructed, both fetches of the       *)
(* mount effect issued.                                                    *)
(***************************************************************************)
Views == {"predictor", "comparison", "statistics", "about"}

InitApp ==
    /\ smiles = <<>>
    /\ selectedExample = 0
    /\ inputError = NoError
    /\ currentView = "predictor"
    /\ predictionData = None
    /\ isLoading = FALSE
    /\ systemStatus = [backendConnected |-> FALSE, modelsLoaded |-> FALSE,
                       datasetLoaded |-> FALSE]
    /\ modelStats = [totalPredictions |-> 0, totalMolecules |-> None,
                     embeddingDimensions |-> None]
    /\ inflight = <<>>
    /\ issued = 0
    /\ healthPc = "pending"
    /\ statsPc = "pending"
    /\ toast = "none"
    /\ crashed = FALSE

\* no transformation under way
NoClock == [startTime |-> 0, now |-> 0]

InitUnit ==
    /\ validateArg = <<>>
    /\ validateRet = None
    /\ normalizeArg = <<>>
    /\ normalizeRet = None
    /\ transformArg = None
    /\ transformClock = NoClock
    /\ transformRet = None

Init == InitApp /\ InitUnit

(***************************************************************************)
(* Rendering: PredictionResults is rendered in the predictor view when     *)
(* predictionData is set; processingTime.toFixed(3) throws on undefined,   *)
(* and with no error boundary React unmounts the whole application         *)
(***************************************************************************)
RenderThrows(view, data) ==
    view = "predictor" /\ data # None /\ data[1].processingTime = None

(***************************************************************************)
(* App: checkBackendStatus and loadSystemStats                             *)
(***************************************************************************)
\* the dataset flag read in place of the models flag
modelsLoadedWrongField == systemStatus.datasetLoaded

\* systemStatus.modelsLoaded, as the handlers and the form read it
modelsLoaded == systemStatus.modelsLoaded

\* systemStatus.backendConnected, as the handlers and the form read it
backendConnected == systemStatus.backendConnected

\* a health check repeated for as long as the application runs
HealthCheckDueAlways == TRUE

\* useEffect(() => { checkBackendStatus(); ... }, []): once, at mount
HealthCheckDue == healthPc = "pending"

\* the HTTP status of the /health response not looked at
ResponseOkAlways(o) == TRUE

\* if (response.ok)
ResponseOk(o) == o.ok

CheckBackendStatus(o) ==
    /\ ~crashed
    /\ HealthCheckDue
    /\ healthPc' = "done"
    /\ IF o.fetch = "reject"
       THEN /\ systemStatus' = [backendConnected |-> FALSE,
                                modelsLoaded |-> FALSE,
                                datasetLoaded |-> FALSE]
            /\ toast' = "backend_connection_failed"
       ELSE IF ResponseOk(o)
       THEN /\ systemStatus' = [backendConnected |-> TRUE,
                                modelsLoaded |-> o.models_loaded,
                                datasetLoaded |-> o.dataset_loaded]
            /\ toast' = IF o.models_loaded THEN "models_loaded"
                        ELSE "models_failed_to_load"
       ELSE UNCHANGED <<systemStatus, toast>>
    /\ UNCHANGED <<smiles, selectedExample, inputError, currentView,
                   predictionData, isLoading, modelStats, inflight, issued,
                   statsPc, crashed, unitVars>>

\* x || d
OrDefault(x, d) == IF x = None \/ x = Some(0) THEN d ELSE x[1]

\* the modelStats captured by the closure at mount in place of prev
PrevAtMount(stats) ==
    [totalPredictions |-> 0, totalMolecules |-> None,
     embeddingDimensions |-> None]

\* setModelStats(prev => ({...prev, ...})): the update starts from the
\* state as it is when the update is applied
Prev(stats) == stats

LoadSystemStats(o) ==
    /\ ~crashed
    /\ statsPc = "pending"
    /\ statsPc' = "done"
    /\ IF o.fetch = "ok" /\ o.ok
       THEN modelStats' =
                [Prev(modelStats) EXCEPT
                    !.totalMolecules = Some(OrDefault(o.total_molecules, 0)),
                    !.embeddingDimensions =
                        Some(OrDefault(o.embedding_dimensions, 64))]
       ELSE UNCHANGED modelStats
    /\ UNCHANGED <<smiles, selectedExample, inputError, currentView,
                   predictionData, isLoading, systemStatus, inflight, issued,
                   healthPc, toast, crashed, unitVars>>

(***************************************************************************)
(* App: handlePrediction                                                   *)
(***************************************************************************)
\* the string serialised twice: the quotes become part of the value
RequestBodyQuoted(s) == <<"\"">> \o s \o <<"\"">>

\* JSON.stringify({ smiles: smiles }): the string travels as it is
RequestBody(s) == s

\* handlePrediction up to its await: the two status checks, then
\* setIsLoading(true) and the fetch
HandlePredictionStart(s) ==
    IF ~backendConnected
    THEN /\ toast' = "backend_not_connected"
         /\ UNCHANGED <<isLoading, inflight, issued>>
    ELSE IF ~modelsLoaded
    THEN /\ toast' = "models_not_loaded"
         /\ UNCHANGED <<isLoading, inflight, issued>>
    ELSE /\ isLoading' = TRUE
         /\ inflight' = Append(inflight,
                               [id |-> issued + 1, body |-> RequestBody(s)])
         /\ issued' = issued + 1
         /\ toast' = "analyzing"

\* the success flag of the body not looked at
PredictionFailsIgnoresSuccess(o) ==
    \/ o.fetch = "reject"
    \/ o.json = None
    \/ NormalizeThrows(o.json[1])

\* the request fails: fetch rejected, body not JSON, success falsy, or the
\* transformation threw
PredictionFails(o) ==
    \/ o.fetch = "reject"
    \/ o.json = None
    \/ ~o.json[1].success
    \/ NormalizeThrows(o.json[1])

\* what the catch block leaves in the displayed-prediction slot
CatchKeepsData(data) == data

CatchData(data) == None

\* the transformed prediction dropped on the way to the slot
SetPredictionDataDropped(transformedPrediction) == None

\* setPredictionData(transformedPrediction)
SetPredictionData(transformedPrediction) == Some(transformedPrediction)

RemoveAt(s, i) == SubSeq(s, 1, i - 1) \o SubSeq(s, i + 1, Len(s))

\* the displayed-prediction slot after the settlement with outcome o:
\* setPredictionData(transformedPrediction), or the catch block
SettleData(data, o) ==
    IF PredictionFails(o) THEN CatchData(data)
    ELSE SetPredictionData(Normalize(o.json[1]))

\* modelStats after the settlement with outcome o
SettleStats(stats, o) ==
    IF PredictionFails(o) THEN stats
    ELSE [Prev(stats) EXCEPT !.totalPredictions = @ + 1]

\* the toast of the settlement with outcome o
SettleToast(o) ==
    IF PredictionFails(o) THEN "prediction_failed"
    ELSE IF Normalize(o.json[1]).hasGroups THEN "found_groups"
    ELSE "no_groups_detected"

\* handlePrediction from the resumption after its await to its end
HandlePredictionSettle(i, o) ==
    /\ ~crashed
    /\ i \in 1..Len(inflight)
    /\ o \in PredictOutcomes(inflight[i].body)
    /\ inflight' = RemoveAt(inflight, i)
    /\ predictionData' = SettleData(predictionData, o)
    /\ modelStats' = SettleStats(modelStats, o)
    /\ toast' = SettleToast(o)
    /\ isLoading' = FALSE
    /\ crashed' = RenderThrows(currentView, predictionData')
    /\ UNCHANGED <<smiles, selectedExample, inputError, currentView,
                   systemStatus, issued, healthPc, statsPc, unitVars>>

(***************************************************************************)
(* MoleculeInput                                                           *)
(***************************************************************************)
isSystemReady == backendConnected /\ modelsLoaded

\* getSystemStatusText
getSystemStatusText ==
    IF ~backendConnected THEN "Backend Disconnected"
    ELSE IF ~modelsLoaded THEN "Models Not Loaded"
    ELSE "System Ready"

\* the second banner shown whenever the models are not loaded
StatusBannersUnguarded ==
    {b \in {"Backend Disconnected", "Models Not Loaded", "System Ready"} :
        \/ b = "Backend Disconnected" /\ ~backendConnected
        \/ b = "Models Not Loaded" /\ ~modelsLoaded
        \/ b = "System Ready" /\ backendConnected /\ modelsLoaded}

\* the status banners renderCurrentView puts above the form
StatusBanners ==
    {b \in {"Backend Disconnected", "Models Not Loaded", "System Ready"} :
        \/ b = "Backend Disconnected" /\ ~backendConnected
        \/ b = "Models Not Loaded" /\ backendConnected /\ ~modelsLoaded
        \/ b = "System Ready" /\ backendConnected /\ modelsLoaded}

\* the component is rendered only in the predictor view
Mounted == currentView = "predictor"

HandleInputChange(value) ==
    /\ ~crashed
    /\ Mounted
    /\ isSystemReady                      \* the input is disabled otherwise
    /\ smiles' = value
    /\ inputError' = IF ~IsBlank(value) THEN validateSMILES(value)
                     ELSE NoError
    /\ UNCHANGED <<selectedExample, currentView, predictionData, isLoading,
                   systemStatus, modelStats, inflight, issued, healthPc,
                   statsPc, toast, crashed, unitVars>>

ExampleChoices ==
    {e \in 1..Len(exampleMolecules) : e <= MaxExample}

HandleExampleClick(e) ==
    /\ ~crashed
    /\ Mounted
    /\ isSystemReady
    /\ smiles' = exampleMolecules[e]
    /\ selectedExample' = e
    /\ inputError' = NoError
    /\ toast' = "loaded_example"
    /\ UNCHANGED <<currentView, predictionData, isLoading, systemStatus,
                   modelStats, inflight, issued, healthPc, statsPc, crashed,
                   unitVars>>

ClearInput ==
    /\ ~crashed
    /\ Mounted
    /\ smiles # <<>>                      \* the button is rendered if smiles
    /\ smiles' = <<>>
    /\ selectedExample' = 0
    /\ inputError' = NoError
    /\ UNCHANGED <<currentView, predictionData, isLoading, systemStatus,
                   modelStats, inflight, issued, healthPc, statsPc, toast,
                   crashed, unitVars>>

\* the validation step of handleSubmit left out
SubmitErrorNone(s) == NoError

\* const error = validateSMILES(smiles)
SubmitError(s) == validateSMILES(s)

\* handleSubmit
HandleSubmit ==
    /\ IF ~backendConnected
       THEN /\ toast' = "backend_not_connected"
            /\ UNCHANGED <<isLoading, inflight, issued>>
       ELSE IF ~modelsLoaded
       THEN /\ toast' = "models_not_loaded"
            /\ UNCHANGED <<isLoading, inflight, issued>>
       ELSE IF IsBlank(smiles)
       THEN /\ toast' = "enter_smiles"
            /\ UNCHANGED <<isLoading, inflight, issued>>
       ELSE IF SubmitError(smiles) # NoError
       THEN /\ toast' = "invalid_smiles"
            /\ UNCHANGED <<isLoading, inflight, issued>>
       ELSE HandlePredictionStart(Trim(smiles))
    /\ UNCHANGED <<smiles, selectedExample, inputError, currentView,
                   predictionData, systemStatus, modelStats, healthPc,
                   statsPc, crashed, unitVars>>

\* the submit button without its isLoading disjunct
SubmitDisabledNoLoading ==
    IsBlank(smiles) \/ inputError # NoError \/ ~isSystemReady

\* the submit button without its inputError disjunct
SubmitDisabledNoInputError ==
    isLoading \/ IsBlank(smiles) \/ ~isSystemReady

\* disabled={isLoading || !smiles.trim() || inputError || !isSystemReady}
SubmitDisabled ==
    isLoading \/ IsBlank(smiles) \/ inputError # NoError \/ ~isSystemReady

\* the user submits the form through the button
ClickSubmit ==
    /\ ~crashed
    /\ Mounted
    /\ ~SubmitDisabled
    /\ issued < MaxRequests
    /\ HandleSubmit

\* a submit event reaches handleSubmit whatever the button's state
SubmitEvent ==
    /\ ~crashed
    /\ Mounted
    /\ issued < MaxRequests
    /\ HandleSubmit

(***************************************************************************)
(* Header: setCurrentView; leaving the predictor unmounts MoleculeInput,   *)
(* which is constructed afresh on return                                   *)
(***************************************************************************)
SetCurrentView(v) ==
    /\ ~crashed
    /\ currentView' = v
    /\ crashed' = RenderThrows(v, predictionData)
    /\ IF v # currentView
       THEN /\ smiles' = <<>>
            /\ selectedExample' = 0
            /\ inputError' = NoError
       ELSE UNCHANGED <<smiles, selectedExample, inputError>>
    /\ UNCHANGED <<predictionData, isLoading, systemStatus, modelStats,
                   inflight, issued, healthPc, statsPc, toast, unitVars>>

(***************************************************************************)
(* Specifications                                                          *)
(***************************************************************************)
Background ==
    \/ \E o \in HealthOutcomes : CheckBackendStatus(o)
    \/ \E o \in StatsOutcomes : LoadSystemStats(o)
    \/ \E i \in 1..Len(inflight) :
          \E o \in PredictOutcomes(inflight[i].body) :
              HandlePredictionSettle(i, o)

Typing ==
    \/ \E value \in TypedStrings : HandleInputChange(value)
    \/ ClearInput
    \/ \E v \in Views : SetCurrentView(v)

\* the application as the user drives it
Next ==
    \/ Background
    \/ Typing
    \/ \E e \in ExampleChoices : HandleExampleClick(e)
    \/ ClickSubmit

Spec == Init /\ [][Next]_vars

\* handleSubmit driven directly, on typed input
NextHandler == Background \/ Typing \/ SubmitEvent

SpecHandler == Init /\ [][NextHandler]_vars

\* validateSMILES on its own
InitValidate ==
    /\ InitApp
    /\ validateArg \in StringsUpTo(MaxLen)
    /\ validateRet = None
    /\ normalizeArg = <<>>
    /\ normalizeRet = None
    /\ transformArg = None
    /\ transformClock = NoClock
    /\ transformRet = None

ValidateCall ==
    /\ validateRet = None
    /\ validateRet' = Some(validateSMILES(validateArg))
    /\ UNCHANGED <<appVars, validateArg, normalizeArg, normalizeRet,
                   transformArg, transformClock, transformRet>>

NextValidate == ValidateCall

SpecValidate == InitValidate /\ [][NextValidate]_vars

\* the functionalGroups map on its own
InitNormalize ==
    /\ InitApp
    /\ validateArg = <<>>
    /\ validateRet = None
    /\ normalizeArg \in Mappings(MaxGroups)
    /\ normalizeRet = None
    /\ transformArg = None
    /\ transformClock = NoClock
    /\ transformRet = None

NormalizeCall ==
    /\ normalizeRet = None
    /\ normalizeRet' = Some(MapGroups(normalizeArg))
    /\ UNCHANGED <<appVars, validateArg, validateRet, normalizeArg,
                   transformArg, transformClock, transformRet>>

NextNormalize == NormalizeCall

SpecNormalize == InitNormalize /\ [][NextNormalize]_vars

(***************************************************************************)
(* The response transformation followed by the rendering of its result,    *)
(* on their own                                                            *)
(***************************************************************************)
\* x is falsy: undefined, null or the empty string
Falsy(x) == x = None \/ x = Some("")

\* the label copied whatever it is
Level1LabelCopied(data) ==
    IF data.level1Prediction = None THEN "" ELSE data.level1Prediction[1]

\* PredictionResults: level1Prediction || (hasGroups ? 'HAS_GROUPS' : 'NO_GROUPS')
Level1Label(data) ==
    IF ~Falsy(data.level1Prediction) THEN data.level1Prediction[1]
    ELSE IF data.hasGroups THEN "HAS_GROUPS" ELSE "NO_GROUPS"

\* what the try block of handlePrediction and the render after it yield for
\* a JSON body with success true: threw is the TypeError of the
\* transformation, data the record handed to setPredictionData, shown what
\* PredictionResults displays of it (None when its render throws)
Transform(result) ==
    IF NormalizeThrows(result)
    THEN [threw |-> TRUE, data |-> None, shown |-> None]
    ELSE LET data == TransformedPrediction(result, transformClock.startTime,
                                          transformClock.now)
         IN  [threw |-> FALSE,
              data  |-> Some(data),
              shown |-> IF RenderThrows("predictor", Some(data)) THEN None
                        ELSE Some([level1Label |-> Level1Label(data)])]

\* the stage-1 records a body may carry
Level1s ==
    {[has_functional_groups |-> h, confidence |-> 95, prediction |-> p] :
        h \in BOOLEAN,
        p \in {None, Some(""), Some("HAS_GROUPS"), Some("positive")}}

\* the stage-2 records a body may carry
Level2s ==
    {Level2Of(None, <<>>),
     Level2Of(Some(<<<<Alcohol, 92>>>>), <<Alcohol>>),
     [functional_groups |-> Some(<<<<Alcohol, 92>>, <<Amine, 30>>>>),
      detected_groups |-> <<Alcohol>>, total_detected |-> 2]}

Optional(S) == {None} \cup {Some(x) : x \in S}

\* JSON bodies with success true, each part present or missing
ResultSpace ==
    [success         : {TRUE},
     message         : {None},
     smiles          : Optional({<<"C">>}),
     level1          : Optional(Level1s),
     level2          : Optional(Level2s),
     metadata        : Optional({Metadata}),
     processing_time : Optional({12}),
     warnings        : Optional({<<>>, <<"not in dataset">>}),
     timestamp       : Optional({"2024-01-01T00:00:00"})]

\* the two readings of the client clock, in hundredths of a second: the
\* fetch takes no time, as long as the backend reports, or longer
Clocks ==
    {[startTime |-> s, now |-> s + d] : s \in {0, 100},
                                        d \in {0, 12, ClientElapsed}}

InitTransform ==
    /\ InitApp
    /\ validateArg = <<>>
    /\ validateRet = None
    /\ normalizeArg = <<>>
    /\ normalizeRet = None
    /\ transformArg \in {Some(r) : r \in ResultSpace}
    /\ transformClock \in Clocks
    /\ transformRet = None

TransformCall ==
    /\ transformRet = None
    /\ transformRet' = Some(Transform(transformArg[1]))
    /\ UNCHANGED <<appVars, validateArg, validateRet, normalizeArg,
                   normalizeRet, transformArg, transformClock>>

NextTransform == TransformCall

SpecTransform == InitTransform /\ [][NextTransform]_vars

(***************************************************************************)
(* Properties                                                              *)
(***************************************************************************)
\* a /predict request settles in this step, and it failed
FailureStep == Len(inflight') < Len(inflight) /\ toast' = "prediction_failed"

\* C1: when a prediction request fails, the prediction displayed before it
\* is preserved (no clearing, no partial update).
C1_FailurePreservesPrediction ==
    [][FailureStep => predictionData' = predictionData]_vars

\* C2: at most one /predict request is in flight at any time, and while it
\* is, isLoading is true.
C2_AtMostOneInFlight ==
    /\ Len(inflight) <= 1
    /\ Len(inflight) = 1 => isLoading

\* a second request is in flight after the first one has settled
C2_Witness == Len(inflight) = 1 /\ issued = 2 /\ isLoading

\* C3: when validation of the input fails (blank, invalid character,
\* unbalanced brackets), handleSubmit issues no request, and leaves
\* isLoading and predictionData as they were.
C3_InvalidInputIssuesNoRequest ==
    [][(validateSMILES(smiles) # NoError /\ SubmitEvent)
          => /\ inflight' = inflight
             /\ issued' = issued
             /\ isLoading' = isLoading
             /\ predictionData' = predictionData]_vars

\* handleSubmit has refused an input with unbalanced brackets
C3_Witness ==
    /\ toast = "invalid_smiles"
    /\ validateSMILES(smiles) = ErrUnbalanced
    /\ inflight = <<>>
    /\ ~isLoading

\* number of occurrences of character c in string s
Count(s, c) == Cardinality({i \in 1..Len(s) : s[i] = c})

AllWhitespace(s) == \A i \in 1..Len(s) : s[i] \in Whitespace

AllAllowed(s) == \A i \in 1..Len(s) : s[i] \in AllowedChars

EqualCounts(s) ==
    Count(s, "(") = Count(s, ")") /\ Count(s, "[") = Count(s, "]")

\* the reference: the three checks in their fixed order
RefValidate(s) ==
    IF AllWhitespace(s) THEN ErrEmpty
    ELSE IF ~AllAllowed(s) THEN ErrInvalidChars
    ELSE IF ~EqualCounts(s) THEN ErrUnbalanced
    ELSE NoError

\* C4: validate returns, for every string, exactly the reference result:
\* empty first, then invalid characters, then unbalanced brackets, else
\* valid; one of these four and nothing else.
C4_ValidateMatchesReference ==
    validateRet # None =>
        /\ validateRet[1] \in {NoError, ErrEmpty, ErrInvalidChars, ErrUnbalanced}
        /\ validateRet[1] = RefValidate(validateArg)

C4_Witness ==
    validateArg = <<"C", "(", ")">> /\ validateRet = Some(NoError)

\* C5 as stated: every string containing a character outside the allowed
\* set is reported as InvalidCharacters.
C5_AnyIllegalCharIsInvalidChars ==
    (validateRet # None /\ ~AllAllowed(validateArg))
        => validateRet[1] = ErrInvalidChars

\* C5, amended: every string that is not whitespace-only and contains a
\* character outside the allowed set is reported as InvalidCharacters, also
\* when its brackets are unbalanced.
C5_NonBlankIllegalCharIsInvalidChars ==
    (validateRet # None /\ ~AllWhitespace(validateArg)
        /\ ~AllAllowed(validateArg))
        => validateRet[1] = ErrInvalidChars

\* an illegal character and an unclosed "(": the character check wins
C5_Witness ==
    validateArg = <<"C", ";", "(">> /\ validateRet = Some(ErrInvalidChars)

\* C6: every non-blank string of allowed characters whose bracket counts
\* are equal, in any order, is valid, even with interleaved nesting or a
\* closer before its opener.
C6_EqualCountsAreValid ==
    (validateRet # None /\ validateArg # <<>> /\ AllAllowed(validateArg)
        /\ EqualCounts(validateArg))
        => validateRet[1] = NoError

\* "([)]" is accepted
C6_Witness ==
    validateArg = <<"(", "[", ")", "]">> /\ validateRet = Some(NoError)

\* C7: every non-blank string of allowed characters with unequal counts of
\* "(" and ")" or of "[" and "]" is reported as UnbalancedBrackets; the two
\* kinds are counted independently.
C7_UnequalCountsAreUnbalanced ==
    (validateRet # None /\ validateArg # <<>> /\ AllAllowed(validateArg)
        /\ ~EqualCounts(validateArg))
        => validateRet[1] = ErrUnbalanced

\* a surplus "(" is not cancelled by a surplus "]"
C7_Witness ==
    validateArg = <<"C", "(", "]">> /\ validateRet = Some(ErrUnbalanced)

\* C8: every string of whitespace only, the empty string included, is
\* reported as EmptyInput.
C8_WhitespaceIsEmptyInput ==
    (validateRet # None /\ AllWhitespace(validateArg))
        => validateRet[1] = ErrEmpty

C8_Witness ==
    validateArg = <<" ", "\t">> /\ validateRet = Some(ErrEmpty)

\* C9: every /predict request issued carries exactly the input of that
\* moment with leading and trailing whitespace removed, and that input
\* passes validate.
C9_RequestCarriesValidatedInput ==
    [][issued' # issued
          => /\ Len(inflight') = Len(inflight) + 1
             /\ inflight'[Len(inflight')].body = Trim(smiles)
             /\ RefValidate(smiles) = NoError]_vars

\* the request for the first example molecule is in flight
C9_Witness ==
    \E i \in 1..Len(inflight) : inflight[i].body = exampleMolecules[1]

\* name is key, but for the case of the first character
SameButFirstCase(name, key) ==
    /\ Len(name) = Len(key)
    /\ \A j \in 2..Len(key) : name[j] = key[j]
    /\ key # <<>> => name[1] \in {key[1], ToUpperCase(key[1])}

\* C10: the functionalGroups sequence has exactly one record per key of
\* the stage-2 mapping, same length, in the mapping's iteration order.
C10_OneRecordPerKey ==
    normalizeRet # None =>
        /\ Len(normalizeRet[1]) = Len(normalizeArg)
        /\ \A i \in 1..Len(normalizeArg) :
              /\ SameButFirstCase(normalizeRet[1][i].name, normalizeArg[i][1])
              /\ normalizeRet[1][i].probability = normalizeArg[i][2]

\* a key below the threshold keeps its record, ahead of a detected one
C10_Witness ==
    /\ normalizeArg = <<<<Amine, 30>>, <<Alcohol, 92>>>>
    /\ normalizeRet # None
    /\ Len(normalizeRet[1]) = 2

\* C11: in every per-group record, detected is true iff the record's
\* probability is strictly above 0.5 (50 hundredths); exactly 0.5 gives
\* false; nothing else enters.
C11_DetectedIffAboveHalf ==
    normalizeRet # None =>
        \A i \in 1..Len(normalizeRet[1]) :
            /\ normalizeRet[1][i].detected
                  <=> (normalizeRet[1][i].probability > 50)
            /\ normalizeRet[1][i].probability = 50
                  => ~normalizeRet[1][i].detected

\* a group at exactly 0.5 is not detected
C11_Witness ==
    /\ normalizeArg = <<<<Amine, 50>>>>
    /\ normalizeRet # None
    /\ ~normalizeRet[1][1].detected

\* C12: the record's name is the key with its first character upper-cased
\* and the rest unchanged; the probability is carried verbatim into both
\* probability and confidence.
C12_NameAndProbabilityCarried ==
    normalizeRet # None =>
        \A i \in 1..Len(normalizeArg) :
            LET key == normalizeArg[i][1]
                rec == normalizeRet[1][i]
            IN  /\ Len(rec.name) = Len(key)
                /\ key # <<>> => rec.name[1] = ToUpperCase(key[1])
                /\ \A j \in 2..Len(key) : rec.name[j] = key[j]
                /\ rec.probability = normalizeArg[i][2]
                /\ rec.confidence = normalizeArg[i][2]

\* "alcohol" becomes "Alcohol"
C12_Witness ==
    /\ normalizeArg = <<<<Alcohol, 92>>>>
    /\ normalizeRet # None
    /\ normalizeRet[1][1].name = <<"A", "l", "c", "o", "h", "o", "l">>
    /\ normalizeRet[1][1].confidence = 92

\* a part of the body the transformation reads is missing
MissingField(result) ==
    \/ result.smiles = None
    \/ result.level1 = None
    \/ result.level2 = None
    \/ result.level2 # None /\ result.level2[1].functional_groups = None
    \/ result.metadata = None
    \/ result.processing_time = None
    \/ result.timestamp = None

\* C13: a body with success true that misses an expected field yields an
\* error and no normalized prediction; no required value is left undefined.
C13_MissingFieldYieldsError ==
    (transformRet # None /\ MissingField(transformArg[1]))
        => transformRet[1].threw /\ transformRet[1].data = None

\* the fetch rejected, or the body says success false
RequestFailed(o) ==
    o.fetch = "reject" \/ (o.json # None /\ ~o.json[1].success)

\* C14: when the fetch of a pending request rejects or its body says
\* success false, whatever the HTTP status, the settlement raises the error
\* notification, produces no prediction from the response and leaves
\* totalPredictions as it is.
C14_FailedRequestFails ==
    \A i \in 1..Len(inflight) :
        \A o \in PredictOutcomes(inflight[i].body) :
            RequestFailed(o)
            => /\ SettleToast(o) = "prediction_failed"
               /\ SettleData(predictionData, o) \in {None, predictionData}
               /\ SettleStats(modelStats, o).totalPredictions
                     = modelStats.totalPredictions

\* the second request has failed after the first succeeded: the error
\* notification is up and the count is still one
C14_Witness ==
    /\ toast = "prediction_failed"
    /\ issued = 2
    /\ inflight = <<>>
    /\ modelStats.totalPredictions = 1

\* a request settles successfully in this step
SuccessStep ==
    /\ Len(inflight') < Len(inflight)
    /\ toast' \in {"found_groups", "no_groups_detected"}

\* C15: a successful request puts one prediction into the slot, replacing
\* what was there, and the slot changes only in a step that completes
\* exactly one request.
C15_OneWritePerCompletedRequest ==
    [][/\ predictionData' # predictionData
          => Len(inflight') = Len(inflight) - 1
       /\ SuccessStep
          => /\ predictionData' # None
             /\ predictionData'[1].hasGroups <=> toast' = "found_groups"]_vars

\* the second successful response has replaced the first one's prediction
C15_Witness ==
    /\ modelStats.totalPredictions = 2
    /\ predictionData # None
    /\ ~predictionData[1].hasGroups
    /\ toast = "no_groups_detected"

\* C16: the displayed prediction is never overwritten by the response to a
\* request issued before the latest one (stale responses are discarded).
C16_StaleResponseDiscarded ==
    [][\A i \in 1..Len(inflight) :
          (inflight' = RemoveAt(inflight, i) /\ inflight[i].id < issued)
          => predictionData' = predictionData]_vars

\* C17: while the backend is not connected or the models are not loaded,
\* no /predict request is issued and isLoading is not set.
C17_NotReadyBlocksSubmission ==
    [][(~systemStatus.backendConnected \/ ~systemStatus.modelsLoaded)
          => issued' = issued /\ inflight' = inflight /\ ~isLoading']_vars

\* handleSubmit has refused because the models are not loaded
C17_Witness ==
    /\ toast = "models_not_loaded"
    /\ systemStatus.backendConnected
    /\ ~systemStatus.modelsLoaded
    /\ issued = 0
    /\ ~isLoading

\* C18: the application remains usable after any error: it is never torn
\* down, and no completed request leaves isLoading true.
C18_NoErrorIsFatal ==
    /\ ~crashed
    /\ inflight = <<>> => ~isLoading

\* C19 as stated: an absent label is synthesized from the boolean, a
\* present label is shown as it is.
C19_LabelSynthesizedOrCopied ==
    (transformRet # None /\ transformRet[1].shown # None)
        => LET level1 == transformArg[1].level1[1]
               label  == transformRet[1].shown[1].level1Label
           IN  IF level1.prediction = None
               THEN label = IF level1.has_functional_groups
                            THEN "HAS_GROUPS" ELSE "NO_GROUPS"
               ELSE label = level1.prediction[1]

\* C19, amended: an absent or empty label is shown synthesized from the
\* boolean, a non-empty label is shown as it is; the normalized record
\* carries level1.prediction as it came.
C19_LabelSynthesizedWhenAbsentOrEmpty ==
    (transformRet # None /\ transformRet[1].shown # None)
        => LET level1 == transformArg[1].level1[1]
               label  == transformRet[1].shown[1].level1Label
           IN  /\ IF level1.prediction \in {None, Some("")}
                  THEN label = IF level1.has_functional_groups
                               THEN "HAS_GROUPS" ELSE "NO_GROUPS"
                  ELSE label = level1.prediction[1]
               /\ transformRet[1].data[1].level1Prediction = level1.prediction

\* no label and has_functional_groups false: "NO_GROUPS" is shown
C19_Witness ==
    /\ transformRet # None
    /\ transformRet[1].shown = Some([level1Label |-> "NO_GROUPS"])
    /\ transformArg[1].level1[1].prediction = None
    /\ ~transformArg[1].level1[1].has_functional_groups

\* C20: detected_groups, total_detected, algorithm, processing_time,
\* in_dataset, feature_count and timestamp are carried through unchanged;
\* warnings is the empty sequence when absent and the response's otherwise.
C20_FieldsCarriedThrough ==
    (transformRet # None /\ ~transformRet[1].threw)
        => LET r == transformArg[1]
               d == transformRet[1].data[1]
           IN  /\ d.detectedGroups = r.level2[1].detected_groups
               /\ d.totalDetected = r.level2[1].total_detected
               /\ d.modelUsed = r.metadata[1].algorithm
               /\ d.processingTime = r.processing_time
               /\ d.inDataset = r.metadata[1].in_dataset
               /\ d.featureCount = r.metadata[1].feature_count
               /\ d.timestamp = r.timestamp
               /\ d.warnings = IF r.warnings = None THEN <<>>
                               ELSE r.warnings[1]

\* the backend's processing time and warnings arrive in the record
C20_Witness ==
    /\ transformRet # None
    /\ ~transformRet[1].threw
    /\ transformRet[1].data[1].processingTime = Some(12)
    /\ transformRet[1].data[1].warnings = <<"not in dataset">>
    /\ transformRet[1].data[1].totalDetected = 2


(***************************************************************************)
(* C21: totalDetected and the detected flags                               *)
(***************************************************************************)
\* functionalGroups.filter(g => g.detected).length
CountDetected(groups) == Len(SelectSeq(groups, LAMBDA g : g.detected))

\* C21 as stated: in every normalized prediction totalDetected equals the
\* number of functionalGroups records whose detected flag is true.
C21_TotalDetectedIsDetectedCount ==
    (transformRet # None /\ ~transformRet[1].threw) =>
        LET data == transformRet[1].data[1]
        IN  data.totalDetected = CountDetected(data.functionalGroups)

\* C21, amended: totalDetected is the total_detected of the response,
\* carried through and never recounted, while the number of records whose
\* detected flag is true is the number of entries of the mapping above 0.5:
\* the two agree only when the response's own count agrees with its mapping.
C21_TotalDetectedIsCarriedThrough ==
    (transformRet # None /\ ~transformRet[1].threw) =>
        LET data   == transformRet[1].data[1]
            level2 == transformArg[1].level2[1]
        IN  /\ data.totalDetected = level2.total_detected
            /\ CountDetected(data.functionalGroups) =
                   Cardinality({i \in 1..Len(level2.functional_groups[1]) :
                                   level2.functional_groups[1][i][2]
                                       > Threshold})

\* the mapping {alcohol: 0.92} with total_detected 1 has been normalized:
\* one record, one detected, totalDetected 1
C21_Witness ==
    /\ transformRet # None
    /\ ~transformRet[1].threw
    /\ transformArg[1].level2[1].functional_groups = Some(<<<<Alcohol, 92>>>>)
    /\ Len(transformRet[1].data[1].functionalGroups) = 1
    /\ CountDetected(transformRet[1].data[1].functionalGroups) = 1
    /\ transformRet[1].data[1].totalDetected = 1

(***************************************************************************)
(* C22: the transformation is a function of the response alone             *)
(***************************************************************************)
\* C22: whatever the client clock read before and after the fetch, the
\* normalized record is the one the same response gives at any other
\* reading, and timestamp and processingTime are those of the response.
C22_NormalizeIsPure ==
    (transformRet # None /\ ~transformRet[1].threw) =>
        LET data   == transformRet[1].data[1]
            result == transformArg[1]
        IN  /\ \A c \in Clocks :
                  data = TransformedPrediction(result, c.startTime, c.now)
            /\ data.timestamp = result.timestamp
            /\ data.processingTime = result.processing_time

\* a response reporting 0.12 s has been normalized while the client measured
\* 2.5 s from a later start: the record carries 0.12 s
C22_Witness ==
    /\ transformRet # None
    /\ ~transformRet[1].threw
    /\ transformClock.startTime = 100
    /\ transformClock.now - transformClock.startTime = ClientElapsed
    /\ transformRet[1].data[1].processingTime = Some(12)
    /\ transformRet[1].data[1].timestamp = Some("2024-01-01T00:00:00")

(***************************************************************************)
(* C23: no usable /health response means backend disconnected              *)
(***************************************************************************)
\* the /health fetch resolved with an OK status
UsableHealth(o) == o.fetch = "ok" /\ o.ok

Disconnected ==
    [backendConnected |-> FALSE, modelsLoaded |-> FALSE,
     datasetLoaded |-> FALSE]

\* C23: when the health check completes on a rejected fetch or a non-OK
\* status, systemStatus is all false afterwards; backendConnected is false
\* while the check is pending and becomes true only in the step that
\* receives an OK /health response.
C23_NoHealthResponseMeansDisconnected ==
    [][/\ \A o \in HealthOutcomes :
             (CheckBackendStatus(o) /\ ~UsableHealth(o))
                 => systemStatus' = Disconnected
       /\ (healthPc = "pending" => ~systemStatus.backendConnected)
       /\ (systemStatus'.backendConnected /\ ~systemStatus.backendConnected)
             => \E o \in HealthOutcomes :
                    UsableHealth(o) /\ CheckBackendStatus(o)]_vars

\* the health check has completed on a non-OK status: nothing was written
\* and no notification raised, the status is the initial all-false one
C23_Witness ==
    /\ healthPc = "done"
    /\ toast = "none"
    /\ systemStatus = Disconnected

(***************************************************************************)
(* C24: the smiles field of the normalized prediction                      *)
(***************************************************************************)
\* the outcome is a body the client accepts as a prediction
Succeeds(o) == ~PredictionFails(o)

\* C24 as stated: for every successful prediction the smiles field of the
\* normalized prediction is the string submitted in the request body.
C24_SmilesIsSubmittedString ==
    \A i \in 1..Len(inflight) :
        \A o \in PredictOutcomes(inflight[i].body) :
            Succeeds(o)
            => SettleData(predictionData, o)[1].smiles
                   = Some(inflight[i].body)

\* C24, amended: for every successful prediction the smiles field of the
\* normalized prediction is the smiles field of the response, whatever was
\* submitted; it is the submitted string when the response echoes it.
C24_SmilesIsResponseSmiles ==
    \A i \in 1..Len(inflight) :
        \A o \in PredictOutcomes(inflight[i].body) :
            Succeeds(o)
            => /\ SettleData(predictionData, o)[1].smiles = o.json[1].smiles
               /\ (o.json[1].smiles = Some(inflight[i].body)
                      => SettleData(predictionData, o)[1].smiles
                             = Some(inflight[i].body))

\* "C" was submitted and is still in the input field; the prediction on
\* display carries the notation of the response
C24_Witness ==
    /\ smiles = <<"C">>
    /\ issued = 1
    /\ inflight = <<>>
    /\ predictionData # None
    /\ predictionData[1].smiles = Some(OtherNotation)

(***************************************************************************)
(* C25: totalPredictions counts the successful predictions                 *)
(***************************************************************************)
\* C25: totalPredictions is 0 until a request has been issued, grows by
\* exactly one in a step that completes a request successfully, and is left
\* as it is by every other step, the arrival of the /stats response and the
\* failure of a request included.
C25_TotalPredictionsCountsSuccesses ==
    [][/\ issued = 0 => modelStats.totalPredictions = 0
       /\ modelStats'.totalPredictions =
              modelStats.totalPredictions + (IF SuccessStep THEN 1 ELSE 0)
       /\ modelStats'.totalPredictions + Len(inflight') <= issued']_vars

\* two requests have succeeded and the /stats response has arrived: the
\* count is two next to the figures of /stats
C25_Witness ==
    /\ modelStats.totalPredictions = 2
    /\ statsPc = "done"
    /\ modelStats.totalMolecules = Some(1500)
    /\ inflight = <<>>

(***************************************************************************)
(* C26: the enabled submit control and the checks of handleSubmit          *)
(***************************************************************************)
\* handleSubmit, run now, hands the input to onPredict, which issues one
\* request under the "analyzing" notification
SubmitIssues ==
    ENABLED (/\ HandleSubmit
             /\ issued' = issued + 1
             /\ Len(inflight') = Len(inflight) + 1
             /\ toast' = "analyzing")

\* handleSubmit, run now, ends in one of its error notifications
SubmitRefuses == ENABLED (HandleSubmit /\ issued' = issued)

\* C26: while the submit control is enabled, every check of handleSubmit
\* passes (status, non-blank input, validateSMILES of the input), so the
\* handler issues exactly one request and raises no error; and the handler
\* does the same while a request is pending if only the other three
\* conditions of the control hold: it has no isLoading guard of its own.
C26_EnabledSubmitPassesAllChecks ==
    /\ ~SubmitDisabled
          => /\ backendConnected /\ modelsLoaded
             /\ ~IsBlank(smiles)
             /\ validateSMILES(smiles) = NoError
             /\ SubmitIssues /\ ~SubmitRefuses
    /\ (isLoading /\ ~IsBlank(smiles) /\ inputError = NoError
           /\ isSystemReady)
          => SubmitIssues /\ ~SubmitRefuses

\* the control was enabled again after a first prediction and the second
\* submission has gone out with no error
C26_Witness ==
    /\ issued = 2
    /\ Len(inflight) = 1
    /\ isLoading
    /\ toast = "analyzing"
    /\ inputError = NoError
    /\ ~IsBlank(smiles)

(***************************************************************************)
(* C27: inputError follows the input                                       *)
(***************************************************************************)
\* C27: in every state reached by typing, example clicks, clears and view
\* changes, inputError is empty when the input is blank and is
\* validateSMILES of the input otherwise; every built-in example passes
\* validateSMILES, which is what keeps this true across handleExampleClick.
C27_InputErrorFollowsInput ==
    /\ inputError = IF IsBlank(smiles) THEN NoError
                    ELSE validateSMILES(smiles)
    /\ \A e \in 1..Len(exampleMolecules) :
           validateSMILES(exampleMolecules[e]) = NoError

\* the first example has been loaded into the field: no error is shown and
\* the input validates
C27_Witness ==
    /\ selectedExample = 1
    /\ smiles = exampleMolecules[1]
    /\ toast = "loaded_example"
    /\ inputError = NoError

(***************************************************************************)
(* C28: accepted strings carry no whitespace                               *)
(***************************************************************************)
HasWhitespace(s) == \E i \in 1..Len(s) : s[i] \in Whitespace

\* C28: a string validateSMILES accepts has no whitespace in it, so trim
\* leaves it as it is; a string that trims to something else and whose
\* trimmed form would be accepted is rejected for its characters.
C28_AcceptedStringsHaveNoWhitespace ==
    validateRet # None =>
        /\ validateRet[1] = NoError
              => ~HasWhitespace(validateArg) /\ Trim(validateArg) = validateArg
        /\ (Trim(validateArg) # validateArg
               /\ validateSMILES(Trim(validateArg)) = NoError)
              => validateRet[1] = ErrInvalidChars

\* "C" between two spaces has been validated and rejected for its characters
C28_Witness ==
    /\ validateArg = <<" ", "C", " ">>
    /\ validateRet = Some(ErrInvalidChars)

(***************************************************************************)
(* C29: systemStatus belongs to the health check                           *)
(***************************************************************************)
\* C29: systemStatus changes only in the step that completes the health
\* check started at mount; backendConnected, once true, stays true; and
\* when that check has completed and left the backend disconnected, no
\* /predict request has been or is ever issued.
C29_StatusWrittenOnlyByHealthCheck ==
    [][/\ systemStatus' # systemStatus
             => healthPc = "pending" /\ healthPc' = "done"
       /\ systemStatus.backendConnected => systemStatus'.backendConnected
       /\ (healthPc = "done" /\ ~systemStatus.backendConnected)
             => /\ issued = 0 /\ issued' = 0
                /\ inflight' = <<>>
                /\ ~systemStatus'.backendConnected]_vars

\* two predictions later, one of them failed, and on another view: the
\* status is the one the health check wrote
C29_Witness ==
    /\ healthPc = "done"
    /\ issued = 2
    /\ inflight = <<>>
    /\ toast = "prediction_failed"
    /\ currentView = "statistics"
    /\ systemStatus = [backendConnected |-> TRUE, modelsLoaded |-> TRUE,
                       datasetLoaded |-> TRUE]

(***************************************************************************)
(* C30: the three status displays                                          *)
(***************************************************************************)
\* C30: modelsLoaded implies backendConnected in every reachable state;
\* exactly one of the three banners is shown, it is the one the form names
\* in its status line, and it is "System Ready" exactly when the form
\* accepts input.
C30_ModelsLoadedImpliesConnected ==
    /\ systemStatus.modelsLoaded => systemStatus.backendConnected
    /\ Cardinality(StatusBanners) = 1
    /\ StatusBanners = {getSystemStatusText}
    /\ (getSystemStatusText = "System Ready") <=> isSystemReady

\* the health check found the backend up with its models not loaded: the
\* middle one of the three displays
C30_Witness ==
    /\ healthPc = "done"
    /\ toast = "models_failed_to_load"
    /\ systemStatus.backendConnected
    /\ ~systemStatus.modelsLoaded
    /\ StatusBanners = {"Models Not Loaded"}
====
